---- MODULE Spec2Model ----
(***************************************************************************)
(* Model of pkg/cndev/bindings.go: the Go binding over the Cambricon CNDEV *)
(* library.  The native library and the host process table are the         *)
(* environment: every native call returns a status and readings chosen by  *)
(* the environment.  Go strings are TLA+ strings; Go errors are records.   *)
(***************************************************************************)
EXTENDS Integers, Sequences, FiniteSets, TLC

VARIABLES
    uuidSeq,   \* number of identifiers uuid.New() has produced so far
    held,      \* per caller: the result of its last deviceGetHandleByIndex
    hc,        \* per caller: the frame of its running deviceHealthCheckState
    req,       \* the structs handed to the native library by the last call
    out        \* the values returned by the last completed operation

vars == <<uuidSeq, held, hc, req, out>>

(***************************** program constants ***************************)
VERSION == 3
szProcs == 32

(********************************* bounds **********************************)
MaxUUID == 3       \* uuid.New() calls followed in one behaviour
MaxNameLen == 4    \* longest /proc/<pid>/comm content read
MaxProcs == 2      \* leading process slots the native library fills
WordBits == 3      \* width of the machine word standing in for 64 bits
DurationBits == 5  \* width of the word standing in for time.Duration's 64 bits
MaxDelay == 8      \* largest delayTime passed to deviceHealthCheckState

Index == {0, 1}
Callers == {"c1", "c2"}
Serials == {-171, 0, 171}
Models == {"MLU100", "MLU270"}

(************************** cndevRet_t and errors **************************)
Rets == {"CNDEV_SUCCESS", "CNDEV_ERROR_NO_DRIVER", "CNDEV_ERROR_LOW_DRIVER_VERSION",
         "CNDEV_ERROR_UNSUPPORTED_API_VERSION", "CNDEV_ERROR_UNINITIALIZED",
         "CNDEV_ERROR_INVALID_ARGUMENT", "CNDEV_ERROR_INVALID_DEVICE_ID",
         "CNDEV_ERROR_UNKNOWN", "CNDEV_ERROR_MALLOC",
         "CNDEV_ERROR_INSUFFICIENT_SPACE", "CNDEV_ERROR_NOT_SUPPORTED"}
QueryRets == {"CNDEV_SUCCESS", "CNDEV_ERROR_INVALID_DEVICE_ID"}
ResolveRets == {"CNDEV_SUCCESS", "CNDEV_ERROR_INVALID_DEVICE_ID", "CNDEV_ERROR_UNKNOWN"}

Nil == [kind |-> "nil", msg |-> ""]

\* C.cndevGetErrorString: the library's diagnostic text for a status
cndevGetErrorString(ret) == "<" \o ret \o ">"

errorString(ret) ==
    IF ret = "CNDEV_SUCCESS" THEN Nil
    ELSE [kind |-> "fmt.Errorf", msg |-> "cndev: " \o cndevGetErrorString(ret)]

(******************************* formatting ********************************)
HexDigits == "0123456789abcdef"
HexDigitsUpper == "0123456789ABCDEF"
DecDigits == "0123456789"

RECURSIVE FormatNat(_, _, _)
FormatNat(n, base, digits) ==
    IF n < base THEN SubSeq(digits, n + 1, n + 1)
    ELSE FormatNat(n \div base, base, digits) \o SubSeq(digits, (n % base) + 1, (n % base) + 1)

\* fmt.Sprintf("%X", n): the upper-case verb
SprintfXUpper(n) ==
    IF n < 0 THEN "-" \o FormatNat(-n, 16, HexDigitsUpper) ELSE FormatNat(n, 16, HexDigitsUpper)

\* fmt.Sprintf("%x", n) of a Go int: sign, then lower-case base-16 digits
SprintfX(n) ==
    IF n < 0 THEN "-" \o FormatNat(-n, 16, HexDigits) ELSE FormatNat(n, 16, HexDigits)

\* fmt.Sprintf("%d", n) of a Go uint
SprintfD(n) == FormatNat(n, 10, DecDigits)

RECURSIVE PadLeft(_, _)
PadLeft(s, w) == IF Len(s) >= w THEN s ELSE PadLeft("0" \o s, w)

\* uuid.New().String(): 36 characters, 8-4-4-4-12 lower-case hex; the k-th
\* draw of the generator is a value no earlier draw returned
UUIDString(k) == PadLeft(SprintfX(k), 8) \o "-0000-4000-8000-000000000000"

(********************************* handle **********************************)
ZeroHandle == [UUID |-> "", MINOR |-> 0, PATH |-> ""]

\* deviceGetCardSN / deviceGetCardName: the request struct and its version tag
deviceGetCardSNReq == [fn |-> "cndevGetCardSN", versions |-> <<VERSION>>]
deviceGetCardNameReq == [fn |-> "cndevGetCardName", versions |-> <<VERSION>>]

\* the fallback identifier reused instead of drawn again
CardUUIDCached(serial, k) ==
    IF SprintfX(serial) = "0" THEN "MLU-" \o UUIDString(0) ELSE "MLU-" \o SprintfX(serial)

\* lines 113-119: the identifier from the serial, or from the k-th fresh uuid
CardUUID(serial, k) ==
    "MLU-" \o (IF SprintfX(serial) = "0" THEN UUIDString(k) ELSE SprintfX(serial))

\* lines 127-131: the device node of the card
CardPath(model, idx) ==
    IF model = "MLU100" THEN "/dev/cambricon_c10Dev" \o SprintfD(idx)
    ELSE "/dev/cambricon_dev" \o SprintfD(idx)


\* the handle filled in before the card-model query is checked
deviceGetHandleByIndexPartial(idx, snRet, serial, nameRet, model, k) ==
    IF errorString(snRet) # Nil THEN [h |-> ZeroHandle, err |-> errorString(snRet)]
    ELSE IF errorString(nameRet) # Nil
         THEN [h |-> [UUID |-> CardUUID(serial, k), MINOR |-> idx, PATH |-> ""],
               err |-> errorString(nameRet)]
         ELSE [h |-> [UUID |-> CardUUID(serial, k), MINOR |-> idx,
                      PATH |-> CardPath(model, idx)],
               err |-> Nil]

\* deviceGetHandleByIndex as a function of what the two native queries return
\* (snRet, serial: cndevGetCardSN; nameRet, model: cndevGetCardName) and of k,
\* the number of the uuid drawn if the serial formats as "0"
deviceGetHandleByIndex(idx, snRet, serial, nameRet, model, k) ==
    IF errorString(snRet) # Nil THEN [h |-> ZeroHandle, err |-> errorString(snRet)]
    ELSE IF errorString(nameRet) # Nil THEN [h |-> ZeroHandle, err |-> errorString(nameRet)]
         ELSE [h |-> [UUID |-> CardUUID(serial, k), MINOR |-> idx,
                      PATH |-> CardPath(model, idx)],
               err |-> Nil]

NoCall == [called |-> FALSE]
Idle == [pc |-> "idle"]
NoOut == [op |-> "none"]

Init ==
    /\ uuidSeq = 0
    /\ held = [c \in Callers |-> NoCall]
    /\ hc = [c \in Callers |-> Idle]
    /\ req = <<>>
    /\ out = NoOut

(***************************** identity resolver ***************************)
\* caller c runs deviceGetHandleByIndex(idx); cndevGetCardSN returns snRet and
\* serial, cndevGetCardName returns nameRet and model.  uuid.New() is drawn
\* when the serial formats as "0", before the card-model query is made.
Resolve(c, idx, snRet, serial, nameRet, model) ==
    LET snOk == snRet = "CNDEV_SUCCESS"
        drew == snOk /\ SprintfX(serial) = "0"
        r == deviceGetHandleByIndex(idx, snRet, serial, nameRet, model, uuidSeq + 1)
    IN /\ hc[c].pc = "idle"
       /\ drew => uuidSeq < MaxUUID
       /\ uuidSeq' = IF drew THEN uuidSeq + 1 ELSE uuidSeq
       /\ held' = [held EXCEPT ![c] =
              [called |-> TRUE, idx |-> idx, h |-> r.h, err |-> r.err,
               snRet |-> snRet,
               serial |-> IF snOk THEN serial ELSE 0,
               nameRet |-> IF snOk THEN nameRet ELSE "NOT_CALLED",
               model |-> IF snOk /\ nameRet = "CNDEV_SUCCESS" THEN model ELSE "NONE"]]
       /\ req' = IF snOk THEN <<deviceGetCardSNReq, deviceGetCardNameReq>>
                 ELSE <<deviceGetCardSNReq>>
       /\ out' = [op |-> "deviceGetHandleByIndex", caller |-> c, h |-> r.h, err |-> r.err]
       /\ UNCHANGED hc

ResolveStep(c) ==
    \E idx \in Index, snRet \in ResolveRets, serial \in Serials,
       nameRet \in ResolveRets, model \in Models :
        Resolve(c, idx, snRet, serial, nameRet, model)

\* a resolve that succeeds on a card without a burned-in serial
ResolveFallbackStep(c) ==
    \E idx \in Index : Resolve(c, idx, "CNDEV_SUCCESS", 0, "CNDEV_SUCCESS", "MLU100")

\* a resolve that succeeds on a card with a burned-in serial
ResolveOkStep(c) ==
    \E idx \in Index : Resolve(c, idx, "CNDEV_SUCCESS", 171, "CNDEV_SUCCESS", "MLU270")


(***************************** machine integers ****************************)
RECURSIVE TwoPow(_)
TwoPow(n) == IF n = 0 THEN 1 ELSE 2 * TwoPow(n - 1)

Word == TwoPow(WordBits)
CLong == (0 - Word \div 2) .. (Word \div 2 - 1)

\* conversion to an unsigned word; unsigned arithmetic wraps the same way
ToUnsigned(x) == x % Word

(******************************** accessors ********************************)
\* the identifier derived again from what cndevGetCardSN returns now
deviceGetUUIDRequery(h, serialNow) ==
    [val |-> "MLU-" \o SprintfX(serialNow), err |-> errorString("CNDEV_SUCCESS")]

\* handle.deviceGetUUID; serialNow is what cndevGetCardSN would return now
deviceGetUUID(h, serialNow) ==
    [val |-> h.UUID, err |-> errorString("CNDEV_SUCCESS")]

\* handle.deviceGetPath; modelNow is what cndevGetCardName would return now
deviceGetPath(h, modelNow) ==
    [val |-> h.PATH, err |-> errorString("CNDEV_SUCCESS")]

Ready(c) == held[c].called /\ hc[c].pc = "idle"

GetUUID(c, serialNow) ==
    /\ Ready(c)
    /\ out' = [op |-> "deviceGetUUID", caller |-> c, serialNow |-> serialNow,
               val |-> deviceGetUUID(held[c].h, serialNow).val,
               err |-> deviceGetUUID(held[c].h, serialNow).err]
    /\ req' = <<>>
    /\ UNCHANGED <<uuidSeq, held, hc>>

GetPath(c, modelNow) ==
    /\ Ready(c)
    /\ out' = [op |-> "deviceGetPath", caller |-> c, modelNow |-> modelNow,
               val |-> deviceGetPath(held[c].h, modelNow).val,
               err |-> deviceGetPath(held[c].h, modelNow).err]
    /\ req' = <<>>
    /\ UNCHANGED <<uuidSeq, held, hc>>

GetUUIDStep(c) == \E serialNow \in Serials : GetUUID(c, serialNow)
GetPathStep(c) == \E modelNow \in Models : GetPath(c, modelNow)

(******************************* health check ******************************)
\* time.Second, in the ticks the model counts sleep in
Second == 2        \* (a bound: ticks per second)

\* a value wrapped into the signed range of time.Duration
ToDuration(x) ==
    IF x % TwoPow(DurationBits) >= TwoPow(DurationBits - 1)
    THEN (x % TwoPow(DurationBits)) - TwoPow(DurationBits)
    ELSE x % TwoPow(DurationBits)

\* time.Duration(delayTime) * time.Second: the product wraps
SleepDuration(delayTime) == ToDuration(ToDuration(delayTime) * Second)

\* lines 154-160: the request is tagged, devId taken from the handle, and
\* time.Sleep(d) entered; Sleep returns at once when d <= 0
HealthStart(c, delayTime) ==
    /\ Ready(c)
    /\ hc' = [hc EXCEPT ![c] =
           [pc |-> "sleeping", delayTime |-> delayTime, devId |-> held[c].h.MINOR,
            version |-> VERSION,
            rem |-> IF SleepDuration(delayTime) > 0 THEN SleepDuration(delayTime) ELSE 0,
            slept |-> 0, queries |-> 0]]
    /\ UNCHANGED <<uuidSeq, held, req, out>>

\* one tick of the sleep passes
HealthTick(c) ==
    /\ hc[c].pc = "sleeping"
    /\ hc[c].rem > 0
    /\ hc' = [hc EXCEPT ![c].rem = @ - 1, ![c].slept = @ + 1]
    /\ UNCHANGED <<uuidSeq, held, req, out>>

\* line 161: the sleep is over; cndevGetCardHealthState returns ret and health
HealthQuery(c, ret, health) ==
    /\ hc[c].pc = "sleeping"
    /\ hc[c].rem = 0
    /\ hc' = [hc EXCEPT ![c] =
           [pc |-> "queried", delayTime |-> hc[c].delayTime, devId |-> hc[c].devId,
            version |-> hc[c].version, rem |-> 0, slept |-> hc[c].slept,
            queries |-> hc[c].queries + 1, ret |-> ret, health |-> health]]
    /\ req' = <<[fn |-> "cndevGetCardHealthState", versions |-> <<hc[c].version>>,
                 devId |-> hc[c].devId]>>
    /\ UNCHANGED <<uuidSeq, held, out>>

\* lines 162-163: the health code and the translated status are returned
HealthReturn(c) ==
    /\ hc[c].pc = "queried"
    /\ out' = [op |-> "deviceHealthCheckState", caller |-> c,
               delayTime |-> hc[c].delayTime, slept |-> hc[c].slept,
               queries |-> hc[c].queries, devId |-> hc[c].devId,
               val |-> hc[c].health, err |-> errorString(hc[c].ret)]
    /\ hc' = [hc EXCEPT ![c] = Idle]
    /\ UNCHANGED <<uuidSeq, held, req>>

HealthStartStep(c, Delays) == \E delayTime \in Delays : HealthStart(c, delayTime)
HealthQueryStep(c) == \E ret \in QueryRets, health \in {0, 1} : HealthQuery(c, ret, health)

(********************************** memory *********************************)
\* uint64Ptr: a C long converted to uint64
uint64Ptr(c) == ToUnsigned(c)

\* free memory clamped at zero instead of wrapped
deviceGetMemoryInfoSaturating(total, used, ret) ==
    [total |-> uint64Ptr(total), used |-> uint64Ptr(used),
     free |-> IF uint64Ptr(total) >= uint64Ptr(used)
              THEN uint64Ptr(total) - uint64Ptr(used) ELSE 0,
     err |-> errorString(ret)]

\* handle.deviceGetMemoryInfo, given the readings cndevGetMemoryUsage leaves
\* in PhysicalMemoryTotal and PhysicalMemoryUsed and the status it returns
deviceGetMemoryInfo(total, used, ret) ==
    [total |-> uint64Ptr(total), used |-> uint64Ptr(used),
     free |-> ToUnsigned(uint64Ptr(total) - uint64Ptr(used)),
     err |-> errorString(ret)]

GetMemoryInfo(c, total, used, ret) ==
    LET r == deviceGetMemoryInfo(total, used, ret)
    IN /\ Ready(c)
       /\ req' = <<[fn |-> "cndevGetMemoryUsage", versions |-> <<VERSION>>,
                    devId |-> held[c].h.MINOR]>>
       /\ out' = [op |-> "deviceGetMemoryInfo", nativeTotal |-> total, nativeUsed |-> used,
                  ret |-> ret, total |-> r.total, used |-> r.used, free |-> r.free,
                  err |-> r.err]
       /\ UNCHANGED <<uuidSeq, held, hc>>

GetMemoryInfoStep(c, Readings) ==
    \E total \in Readings, used \in Readings, ret \in QueryRets :
        GetMemoryInfo(c, total, used, ret)

(******************************** utilization ******************************)
\* uintPtr: a C int converted to uint
uintPtr(c) == ToUnsigned(c)

GetBoardUtilization(c, util, ret) ==
    /\ Ready(c)
    /\ req' = <<[fn |-> "cndevGetDeviceUtilizationInfo", versions |-> <<VERSION>>,
                 devId |-> held[c].h.MINOR]>>
    /\ out' = [op |-> "deviceGetBoardUtilization", ret |-> ret,
               val |-> uintPtr(util), err |-> errorString(ret)]
    /\ UNCHANGED <<uuidSeq, held, hc>>

GetBoardUtilizationStep(c, Readings) ==
    \E util \in Readings, ret \in QueryRets : GetBoardUtilization(c, util, ret)

(****************************** process usage ******************************)
Pids == {0, 7}
KiloBytes == {1023, 2048}
ProcEntries == [pid : Pids, mem : KiloBytes]
ZeroEntry == [pid |-> 0, mem |-> 0]

\* the zeroed array [szProcs]cndevProcessInfo_t after cndevGetProcessInfo
\* wrote k leading entries e and the entry last in the final slot
NativeProcs(k, e, last) ==
    [i \in 1..szProcs |-> IF i <= k THEN e[i] ELSE IF i = szProcs THEN last ELSE ZeroEntry]

\* lines 197-199: only element 0 of the array is tagged with the version
deviceProcessInfoReq(devId) ==
    [fn |-> "cndevGetProcessInfo",
     versions |-> [i \in 1..szProcs |-> IF i = 1 THEN VERSION ELSE 0],
     devId |-> devId]

\* the result cut to the count the native call reports
deviceProcessInfoCounted(arr, infoCount, ret) ==
    [pids |-> [i \in 1..infoCount |-> arr[i].pid],
     mems |-> [i \in 1..infoCount |-> arr[i].mem \div 1024],
     err |-> errorString(ret)]

\* handle.deviceProcessInfo, given the array and the count the native call
\* leaves and the status it returns
deviceProcessInfo(arr, infoCount, ret) ==
    [pids |-> [i \in 1..szProcs |-> arr[i].pid],
     mems |-> [i \in 1..szProcs |-> arr[i].mem \div 1024],
     err |-> errorString(ret)]

GetProcessInfo(c, k, e, last, ret) ==
    LET arr == NativeProcs(k, e, last)
        r == deviceProcessInfo(arr, k, ret)
    IN /\ Ready(c)
       /\ req' = <<deviceProcessInfoReq(held[c].h.MINOR)>>
       /\ out' = [op |-> "deviceProcessInfo", native |-> arr, infoCount |-> k, ret |-> ret,
                  pids |-> r.pids, mems |-> r.mems, err |-> r.err]
       /\ UNCHANGED <<uuidSeq, held, hc>>

GetProcessInfoStep(c, Counts, Entries) ==
    \E k \in Counts, last \in {ZeroEntry, [pid |-> 4242, mem |-> 3000]}, ret \in QueryRets :
        \E e \in [1..k -> Entries] : GetProcessInfo(c, k, e, last, ret)

(******************************* process name ******************************)
NamePids == {0, 1, 42, 4242}
Errnos == {"ENOENT", "EACCES"}

RECURSIVE CommData(_)
\* what /proc/<pid>/comm may hold: texts of letters and newlines
CommData(n) ==
    IF n = 0 THEN {""}
    ELSE CommData(n - 1) \cup {s \o ch : s \in CommData(n - 1), ch \in {"a", "\n"}}

ReadResults ==
    {[ok |-> TRUE, data |-> d, errno |-> ""] : d \in CommData(MaxNameLen)}
        \cup {[ok |-> FALSE, data |-> "", errno |-> e] : e \in Errnos}

\* strings.TrimSuffix(s, suffix)
TrimSuffix(s, suffix) ==
    IF Len(s) >= Len(suffix) /\ SubSeq(s, Len(s) - Len(suffix) + 1, Len(s)) = suffix
    THEN SubSeq(s, 1, Len(s) - Len(suffix))
    ELSE s

\* the error ioutil.ReadFile returns for file f
ReadError(f, errno) == [kind |-> "PathError", msg |-> "open " \o f \o ": " \o errno]
\* os.IsNotExist
IsNotExist(errno) == errno = "ENOENT"

\* the lookup without the pid == 0 case
processNameNoZeroCheck(pid, rd) ==
    LET f == "/proc/" \o SprintfD(pid) \o "/comm"
    IN IF ~rd.ok
       THEN IF IsNotExist(rd.errno) THEN [name |-> "", err |-> Nil]
            ELSE [name |-> "", err |-> ReadError(f, rd.errno)]
       ELSE [name |-> TrimSuffix(rd.data, "\n"), err |-> Nil]

\* processName, given what reading /proc/<pid>/comm returns
processName(pid, rd) ==
    LET f == "/proc/" \o SprintfD(pid) \o "/comm"
    IN IF ~rd.ok
       THEN IF pid = 0 THEN [name |-> "", err |-> ReadError(f, rd.errno)]
            ELSE IF IsNotExist(rd.errno) THEN [name |-> "", err |-> Nil]
            ELSE [name |-> "", err |-> ReadError(f, rd.errno)]
       ELSE [name |-> TrimSuffix(rd.data, "\n"), err |-> Nil]

ProcessName(pid, rd) ==
    /\ out' = [op |-> "processName", pid |-> pid, rd |-> rd,
               name |-> processName(pid, rd).name, err |-> processName(pid, rd).err]
    /\ req' = <<>>
    /\ UNCHANGED <<uuidSeq, held, hc>>

ProcessNameStep == \E pid \in NamePids, rd \in ReadResults : ProcessName(pid, rd)

(***************************** library lifecycle ***************************)
LoadError == [kind |-> "errors.New", msg |-> "could not load CNDEV library"]

\* the status translated without the load-failure case
init_NoLoadCase(ret) == errorString(ret)

\* init_, given the status cndevInit_dl returns
init_(ret) == IF ret = "CNDEV_ERROR_UNINITIALIZED" THEN LoadError ELSE errorString(ret)

\* cndevInit
CndevInit(ret) ==
    /\ out' = [op |-> "cndevInit", ret |-> ret, err |-> init_(ret)]
    /\ req' = <<>>
    /\ UNCHANGED <<uuidSeq, held, hc>>

\* release_, given the status cndevRelease_dl returns
release_(ret) == errorString(ret)

\* Release
Release(ret) ==
    /\ out' = [op |-> "Release", ret |-> ret, err |-> release_(ret)]
    /\ req' = <<>>
    /\ UNCHANGED <<uuidSeq, held, hc>>

\* line 82: the version tag deviceGetCount puts in its request
deviceGetCountReq == [fn |-> "cndevGetDeviceCount", versions |-> <<1>>]

\* deviceGetCount, given the number and the status cndevGetDeviceCount returns
DeviceGetCount(number, ret) ==
    /\ req' = <<deviceGetCountReq>>
    /\ out' = [op |-> "deviceGetCount", ret |-> ret,
               val |-> ToUnsigned(number), err |-> errorString(ret)]
    /\ UNCHANGED <<uuidSeq, held, hc>>

CndevInitStep == \E ret \in Rets : CndevInit(ret)
ReleaseStep == \E ret \in Rets : Release(ret)
DeviceGetCountStep(R) ==
    \E number \in 0..(Word - 1), ret \in R : DeviceGetCount(number, ret)

(****************************** specifications *****************************)
\* identity resolution by two callers
NextResolve == \E c \in Callers : ResolveStep(c)
SpecResolve == Init /\ [][NextResolve]_vars

\* two callers querying their handles concurrently: c1 resolves cards with a
\* serial, c2 cards without one
NextHandle ==
    \/ ResolveOkStep("c1")
    \/ ResolveFallbackStep("c2")
    \/ \E c \in Callers :
        \/ GetUUIDStep(c)
        \/ GetPathStep(c)
        \/ HealthStartStep(c, {1})
        \/ HealthTick(c)
        \/ HealthQueryStep(c)
        \/ HealthReturn(c)
        \/ GetMemoryInfoStep(c, {0})
        \/ GetBoardUtilizationStep(c, {0})
        \/ GetProcessInfoStep(c, {0}, {ZeroEntry})
SpecHandle == Init /\ [][NextHandle]_vars

\* one caller polling the health of a device
NextHealth ==
    \/ ResolveOkStep("c1")
    \/ HealthStartStep("c1", (0 - 1)..MaxDelay)
    \/ HealthTick("c1")
    \/ HealthQueryStep("c1")
    \/ HealthReturn("c1")
SpecHealth == Init /\ [][NextHealth]_vars

\* one caller reading device memory
NextMemory ==
    \/ ResolveOkStep("c1")
    \/ GetMemoryInfoStep("c1", CLong)
SpecMemory == Init /\ [][NextMemory]_vars

\* one caller listing the processes of a device
NextProcess ==
    \/ ResolveOkStep("c1")
    \/ GetProcessInfoStep("c1", 0..MaxProcs, ProcEntries)
SpecProcess == Init /\ [][NextProcess]_vars

\* process-table lookups
NextName == ProcessNameStep
SpecName == Init /\ [][NextName]_vars

\* loading, counting and releasing
NextLifecycle ==
    \/ CndevInitStep
    \/ DeviceGetCountStep(Rets)
    \/ ReleaseStep
SpecLifecycle == Init /\ [][NextLifecycle]_vars

\* every operation that hands a request struct to the native library
NextRequests ==
    \/ DeviceGetCountStep(QueryRets)
    \/ ResolveStep("c1")
    \/ HealthStartStep("c1", {0, 1})
    \/ HealthTick("c1")
    \/ HealthQueryStep("c1")
    \/ HealthReturn("c1")
    \/ GetMemoryInfoStep("c1", {0})
    \/ GetBoardUtilizationStep("c1", {0, 5})
    \/ GetProcessInfoStep("c1", {0, 1}, {[pid |-> 7, mem |-> 2048]})
SpecRequests == Init /\ [][NextRequests]_vars

\* every operation, by every caller, on every input
Next ==
    \/ CndevInitStep
    \/ ReleaseStep
    \/ DeviceGetCountStep(Rets)
    \/ ProcessNameStep
    \/ \E c \in Callers :
        \/ ResolveStep(c)
        \/ GetUUIDStep(c)
        \/ GetPathStep(c)
        \/ HealthStartStep(c, (0 - 1)..MaxDelay)
        \/ HealthTick(c)
        \/ HealthQueryStep(c)
        \/ HealthReturn(c)
        \/ GetMemoryInfoStep(c, CLong)
        \/ GetBoardUtilizationStep(c, CLong)
        \/ GetProcessInfoStep(c, 0..MaxProcs, ProcEntries)
Spec == Init /\ [][Next]_vars

(********************************* properties ******************************)
HasPrefix(s, p) == Len(s) >= Len(p) /\ SubSeq(s, 1, Len(p)) = p
Rest(s, p) == SubSeq(s, Len(p) + 1, Len(s))

IsDigits(s, digits) ==
    /\ Len(s) > 0
    /\ \A i \in 1..Len(s) : \E j \in 1..Len(digits) : SubSeq(digits, j, j) = SubSeq(s, i, i)
DigitValue(ch, digits) == (CHOOSE j \in 1..Len(digits) : SubSeq(digits, j, j) = ch) - 1

RECURSIVE ParseNat(_, _)
ParseNat(s, digits) ==
    IF Len(s) = 0 THEN 0
    ELSE ParseNat(SubSeq(s, 1, Len(s) - 1), digits) * Len(digits)
             + DigitValue(SubSeq(s, Len(s), Len(s)), digits)

\* s is a number in lower-case base 16, with a minus sign when negative
IsLowerHex(s) ==
    IF HasPrefix(s, "-") THEN IsDigits(Rest(s, "-"), "0123456789abcdef")
    ELSE IsDigits(s, "0123456789abcdef")
LowerHexValue(s) ==
    IF HasPrefix(s, "-") THEN 0 - ParseNat(Rest(s, "-"), "0123456789abcdef")
    ELSE ParseNat(s, "0123456789abcdef")

Resolved(c) == held[c].called /\ held[c].err = Nil
Failure(ret) == [kind |-> "fmt.Errorf", msg |-> "cndev: " \o cndevGetErrorString(ret)]

\* C1: deviceGetHandleByIndex is all-or-nothing.  When the card-serial query
\* or the card-model query fails, the call returns that query's failure and
\* the zero handle (identifier, index and device path all unset); it returns
\* no error, and a handle with all three fields filled, only when both
\* queries succeeded.
C1_AllOrNothing ==
    \A c \in Callers : held[c].called =>
        LET r == held[c]
        IN /\ r.snRet # "CNDEV_SUCCESS" =>
                  /\ r.h = [UUID |-> "", MINOR |-> 0, PATH |-> ""]
                  /\ r.err = Failure(r.snRet)
           /\ (r.snRet = "CNDEV_SUCCESS" /\ r.nameRet # "CNDEV_SUCCESS") =>
                  /\ r.h = [UUID |-> "", MINOR |-> 0, PATH |-> ""]
                  /\ r.err = Failure(r.nameRet)
           /\ r.err = Nil <=> (r.snRet = "CNDEV_SUCCESS" /\ r.nameRet = "CNDEV_SUCCESS")
           /\ r.err = Nil => (r.h.UUID # "" /\ r.h.PATH # "" /\ r.h.MINOR = r.idx)

\* the card-model query failed after a fallback identifier had been drawn,
\* while the other caller resolved a handle
C1_Witness ==
    /\ held["c1"].called
    /\ held["c1"].snRet = "CNDEV_SUCCESS" /\ held["c1"].serial = 0
    /\ held["c1"].nameRet = "CNDEV_ERROR_UNKNOWN"
    /\ held["c1"].idx = 1
    /\ uuidSeq > 0
    /\ Resolved("c2")

\* C2: for a nonzero native serial the resolved identifier is "MLU-" followed
\* by the lower-case hexadecimal of the serial, the device path is
\* /dev/cambricon_c10Dev<index> for MLU100 and /dev/cambricon_dev<index> for
\* every other model, and two resolves of the same index with the same serial
\* and model give the same identifier and the same path.
C2_Deterministic ==
    /\ \A c \in Callers : (Resolved(c) /\ held[c].serial # 0) =>
           /\ HasPrefix(held[c].h.UUID, "MLU-")
           /\ IsLowerHex(Rest(held[c].h.UUID, "MLU-"))
           /\ LowerHexValue(Rest(held[c].h.UUID, "MLU-")) = held[c].serial
           /\ LET tmpl == IF held[c].model = "MLU100" THEN "/dev/cambricon_c10Dev"
                          ELSE "/dev/cambricon_dev"
              IN /\ HasPrefix(held[c].h.PATH, tmpl)
                 /\ IsDigits(Rest(held[c].h.PATH, tmpl), "0123456789")
                 /\ ParseNat(Rest(held[c].h.PATH, tmpl), "0123456789") = held[c].idx
    /\ \A c, d \in Callers :
           (/\ Resolved(c) /\ Resolved(d)
            /\ held[c].serial # 0
            /\ held[c].idx = held[d].idx
            /\ held[c].serial = held[d].serial
            /\ held[c].model = held[d].model) =>
               /\ held[c].h.UUID = held[d].h.UUID
               /\ held[c].h.PATH = held[d].h.PATH

\* both callers resolved index 1 of an MLU100 with serial 0xAB
C2_Witness ==
    /\ Resolved("c1") /\ Resolved("c2")
    /\ held["c1"].idx = 1 /\ held["c2"].idx = 1
    /\ held["c1"].serial = 171 /\ held["c2"].serial = 171
    /\ held["c1"].model = "MLU100" /\ held["c2"].model = "MLU100"
    /\ held["c1"].h.UUID = "MLU-ab"
    /\ held["c2"].h.PATH = "/dev/cambricon_c10Dev1"

\* C3: for a zero native serial, two successful resolves of the same index
\* give identifiers that differ, both begin with "MLU-", and neither is
\* "MLU-0".
C3_FreshFallback ==
    /\ \A c \in Callers : (Resolved(c) /\ held[c].serial = 0) =>
           /\ HasPrefix(held[c].h.UUID, "MLU-")
           /\ held[c].h.UUID # "MLU-0"
           /\ Len(held[c].h.UUID) = 40
    /\ \A c, d \in Callers :
           (/\ c # d
            /\ Resolved(c) /\ Resolved(d)
            /\ held[c].serial = 0 /\ held[d].serial = 0
            /\ held[c].idx = held[d].idx) =>
               held[c].h.UUID # held[d].h.UUID

\* both callers resolved index 0 of a card without a serial
C3_Witness ==
    /\ Resolved("c1") /\ Resolved("c2")
    /\ held["c1"].serial = 0 /\ held["c2"].serial = 0
    /\ held["c1"].idx = 0 /\ held["c2"].idx = 0
    /\ held["c1"].model = held["c2"].model

C4_Accessors ==
    /\ out.op = "deviceGetUUID" =>
           /\ out.val = held[out.caller].h.UUID
           /\ out.err = Nil
           /\ IF held[out.caller].serial = 0
              THEN Len(out.val) = 40 /\ HasPrefix(out.val, "MLU-")
              ELSE out.val = "MLU-ab" /\ held[out.caller].serial = 171
    /\ out.op = "deviceGetPath" =>
           (/\ out.val = held[out.caller].h.PATH
            /\ out.val = (IF held[out.caller].model = "MLU100" THEN "/dev/cambricon_c10Dev"
                          ELSE "/dev/cambricon_dev")
                             \o SubSeq("01", held[out.caller].idx + 1, held[out.caller].idx + 1)
            /\ out.err = Nil)

C4_Frame ==
    [][\A c \in Callers :
          held'[c] # held[c] => (out'.op = "deviceGetHandleByIndex" /\ out'.caller = c)]_vars

\* C4: a handle's identifier, index and device path are fixed when it is
\* built.  No step of any query by any caller changes any caller's handle
\* (only that caller's own deviceGetHandleByIndex replaces it), and
\* deviceGetUUID and deviceGetPath return the values set at construction with
\* no error, whatever the native serial and model queries would return now.
C4_HandleFixed == []C4_Accessors /\ C4_Frame

\* c1 read the identifier of its handle, built from serial 0xAB, when the
\* native serial query would return 0, while c2, holding a handle with a
\* fallback identifier, was asleep in a health check
C4_Witness ==
    /\ out.op = "deviceGetUUID" /\ out.caller = "c1"
    /\ out.serialNow = 0 /\ held["c1"].serial = 171
    /\ out.val = "MLU-ab"
    /\ held["c2"].called /\ held["c2"].serial = 0
    /\ hc["c2"].pc = "sleeping" /\ hc["c2"].slept = 1

\* C5: in every result of deviceGetMemoryInfo, used + free equals total as
\* unsigned machine words (the sum wraps), for every pair of native readings,
\* also when used exceeds total and when the native call reported an error.
C5_MemorySum ==
    out.op = "deviceGetMemoryInfo" =>
        /\ out.total \in 0..(Word - 1) /\ out.used \in 0..(Word - 1)
        /\ out.free \in 0..(Word - 1)
        /\ (out.total - out.nativeTotal) % Word = 0
        /\ (out.used - out.nativeUsed) % Word = 0
        /\ (out.used + out.free) % Word = out.total

\* a failed native call left used above total
C5_Witness ==
    /\ out.op = "deviceGetMemoryInfo"
    /\ out.used > out.total /\ out.total > 0
    /\ out.err # Nil

\* C6: deviceProcessInfo returns two sequences of length 32 whatever count
\* the native call reports and whether or not it succeeded; position i holds
\* slot i's pid unchanged (pid 0 kept, order kept) and slot i's memory in
\* kilobytes divided by 1024, rounded down (2048 gives 2).
C6_FixedLength ==
    out.op = "deviceProcessInfo" =>
        /\ Len(out.pids) = 32 /\ Len(out.mems) = 32
        /\ DOMAIN out.pids = 1..32 /\ DOMAIN out.mems = 1..32
        /\ \A i \in 1..32 :
               /\ out.pids[i] = out.native[i].pid
               /\ out.mems[i] * 1024 <= out.native[i].mem
               /\ out.native[i].mem < (out.mems[i] + 1) * 1024
               /\ out.native[i].mem = 2048 => out.mems[i] = 2

\* a failed native call reported one process using 2048 kB, before a slot
\* with pid 0, with the last slot in use
C6_Witness ==
    /\ out.op = "deviceProcessInfo"
    /\ out.err # Nil
    /\ out.infoCount = 2
    /\ out.native[1] = [pid |-> 7, mem |-> 2048]
    /\ out.native[2].pid = 0
    /\ out.pids[32] = 4242 /\ out.mems[32] = 2

\* C7: processName returns the empty name and no error when the record of a
\* nonzero pid is missing; an error for every read failure of pid 0, a
\* missing record included; an error for every other read failure; and on a
\* successful read the record without one trailing newline, and no error.
C7_ProcessName ==
    out.op = "processName" =>
        LET rd == out.rd
        IN /\ (~rd.ok /\ out.pid # 0 /\ rd.errno = "ENOENT") =>
                  (out.name = "" /\ out.err = Nil)
           /\ (~rd.ok /\ out.pid = 0) => (out.name = "" /\ out.err.kind = "PathError")
           /\ (~rd.ok /\ out.pid # 0 /\ rd.errno # "ENOENT") =>
                  (out.name = "" /\ out.err.kind = "PathError")
           /\ rd.ok =>
                  /\ out.err = Nil
                  /\ IF Len(rd.data) > 0 /\ SubSeq(rd.data, Len(rd.data), Len(rd.data)) = "\n"
                     THEN out.name \o "\n" = rd.data
                     ELSE out.name = rd.data

\* pid 0 was looked up and has no record
C7_Witness ==
    /\ out.op = "processName"
    /\ out.pid = 0 /\ ~out.rd.ok /\ out.rd.errno = "ENOENT"
    /\ out.err # Nil

\* C8: cndevInit returns the load error exactly when the native status is
\* CNDEV_ERROR_UNINITIALIZED, no error exactly when it is CNDEV_SUCCESS, and
\* for every other status an error whose text is "cndev: " followed by the
\* library's diagnostic message.
C8_InitErrors ==
    out.op = "cndevInit" =>
        /\ out.err = [kind |-> "errors.New", msg |-> "could not load CNDEV library"]
               <=> out.ret = "CNDEV_ERROR_UNINITIALIZED"
        /\ out.err = Nil <=> out.ret = "CNDEV_SUCCESS"
        /\ out.ret \notin {"CNDEV_SUCCESS", "CNDEV_ERROR_UNINITIALIZED"} =>
               /\ out.err.kind = "fmt.Errorf"
               /\ out.err.msg = "cndev: " \o cndevGetErrorString(out.ret)

\* the library could not be loaded
C8_Witness ==
    /\ out.op = "cndevInit"
    /\ out.ret = "CNDEV_ERROR_UNINITIALIZED"
    /\ out.err.msg = "could not load CNDEV library"

\* C9: every struct handed to the native library carries the version tag
\* VERSION = 3 at the moment of the call: the device-count request and each
\* of the 32 process-list entries included.
C9_AllVersioned ==
    \A i \in 1..Len(req) :
        \A j \in 1..Len(req[i].versions) : req[i].versions[j] = 3

\* C10: deviceHealthCheckState sleeps the whole caller-supplied delay, then
\* issues exactly one native health query with the handle's index, then
\* returns: when the query has been issued and when the result is returned,
\* delayTime seconds have been slept and one query has been made.
C10_FullDelayThenQuery ==
    /\ \A c \in Callers : hc[c].pc = "queried" =>
           /\ hc[c].queries = 1
           /\ hc[c].devId = held[c].h.MINOR
           /\ hc[c].delayTime >= 0 => hc[c].slept = hc[c].delayTime * Second
    /\ out.op = "deviceHealthCheckState" =>
           /\ out.queries = 1
           /\ out.delayTime >= 0 => out.slept = out.delayTime * Second

====
